---- MODULE Spec2Model ----
(***************************************************************************)
(* A model of the ride-sharing discrete-event simulation of               *)
(* src/RiderDrives: locations, drivers, riders, the five event variants   *)
(* and the loop that drains the event queue.  The dispatcher, the monitor *)
(* and the loop itself are not part of src/ and are modelled from the     *)
(* design document (spec.md, sections 4.5 and 6).                         *)
(***************************************************************************)
EXTENDS Integers, Sequences, FiniteSets, TLC

(***************************************************************************)
(* Bounds of the model.                                                    *)
(***************************************************************************)
\* Locations of the seed scripts lie within this Manhattan distance of (0,0).
MaxDist == 1
\* Driver speeds of the seed scripts are 1..MaxSpeed.
MaxSpeed == 2
\* Rider patiences of the seed scripts are 1..MaxPatience.
MaxPatience == 2
\* Timestamps of the seed events are 0..MaxStart.
MaxStart == 1

VARIABLES
    drivers,    \* driver id -> the Driver object's attributes
    riders,     \* rider id -> the Rider object's attributes
    events,     \* the simulation's priority queue of pending events
    available,  \* Dispatcher: the drivers registered as idle
    waiting,    \* Dispatcher: the riders waiting for a driver, oldest first
    log,        \* Monitor: the notifications received, in order
    last,       \* the operation applied last, with what it returned
    aborted,    \* TRUE once an exception has ended the run
    input,      \* the argument of a function called on its own
    output      \* what that call returned

vars == <<drivers, riders, events, available, waiting, log, last, aborted,
          input, output>>

(***************************************************************************)
(* location.py                                                             *)
(***************************************************************************)
Location(row, column) == [row |-> row, column |-> column]

\* Python's None where a Location is expected (Driver.destination).
NoLoc == [row |-> -1, column |-> -1]

Abs(x) == IF x < 0 THEN -x ELSE x

\* The distance with the absolute values forgotten.
manhattan_signed(origin, destination) ==
    (origin.row - destination.row) + (origin.column - destination.column)

\* The distance with the columns left out.
manhattan_rows(origin, destination) == Abs(origin.row - destination.row)

manhattan_distance(origin, destination) ==
    Abs(origin.row - destination.row) + Abs(origin.column - destination.column)

(***************************************************************************)
(* rider.py                                                                *)
(***************************************************************************)
WAITING == "waiting"
\* The constant with the value of WAITING: a cancelled rider reads as waiting.
CANCELLED_AS_WAITING == "waiting"
CANCELLED == "cancelled"
SATISFIED == "satisfied"
\* Rider.status after __init__ (None).
UNSET == "unset"

Rider(origin, destination, patience) ==
    [status |-> UNSET, origin |-> origin, destination |-> destination,
     patience |-> patience]

(***************************************************************************)
(* driver.py                                                               *)
(***************************************************************************)
Driver(location, speed) ==
    [destination |-> NoLoc, is_idle |-> TRUE, location |-> location,
     speed |-> speed]

\* The quotient cut off instead of rounded (n // s).
RoundDown(n, s) == n \div s

\* Python 3 round() of the quotient n / s of two integers, n >= 0, s > 0:
\* to the nearest integer, a tie going to the even neighbour.
Round(n, s) ==
    LET q == n \div s
        r == n % s
    IN  IF 2 * r < s THEN q
        ELSE IF 2 * r > s THEN q + 1
        ELSE IF q % 2 = 0 THEN q ELSE q + 1

get_travel_time(drv, destination) ==
    Round(manhattan_distance(drv.location, destination), drv.speed)

\* manhattan_distance reads .row of its arguments: a None location raises.
TravelRaises(drv, destination) == drv.location = NoLoc \/ destination = NoLoc

\* start_drive that forgets to leave the idle state.
start_drive_stays_idle(drv, location) == [drv EXCEPT !.destination = location]

start_drive(drv, location) ==
    [drv EXCEPT !.is_idle = FALSE, !.destination = location]

\* end_drive that forgets to return to the idle state.
end_drive_stays_busy(drv) ==
    [drv EXCEPT !.location = drv.destination, !.destination = NoLoc]

\* end_drive with its last two assignments swapped: the destination is
\* cleared before it is copied into the location.
end_drive_clears_first(drv) ==
    [drv EXCEPT !.is_idle = TRUE, !.location = NoLoc, !.destination = NoLoc]

end_drive(drv) ==
    [drv EXCEPT !.is_idle = TRUE, !.location = drv.destination,
                !.destination = NoLoc]

\* start_ride that forgets to set the destination.
start_ride_without_destination(drv, rider) == [drv EXCEPT !.is_idle = FALSE]

\* start_ride heading for the rider's origin.
start_ride_to_origin(drv, rider) ==
    [drv EXCEPT !.is_idle = FALSE, !.destination = rider.origin]

start_ride(drv, rider) ==
    [drv EXCEPT !.is_idle = FALSE, !.destination = rider.destination]

end_ride(drv) ==
    [drv EXCEPT !.is_idle = TRUE, !.location = drv.destination,
                !.destination = NoLoc]

(***************************************************************************)
(* event.py: the events and their ordering                                 *)
(***************************************************************************)
NoOne == "none"

RiderRequest(timestamp, r) ==
    [type |-> "RiderRequest", timestamp |-> timestamp, rider |-> r,
     driver |-> NoOne]
DriverRequest(timestamp, d) ==
    [type |-> "DriverRequest", timestamp |-> timestamp, rider |-> NoOne,
     driver |-> d]
Cancellation(timestamp, r) ==
    [type |-> "Cancellation", timestamp |-> timestamp, rider |-> r,
     driver |-> NoOne]
Pickup(timestamp, r, d) ==
    [type |-> "Pickup", timestamp |-> timestamp, rider |-> r, driver |-> d]
Dropoff(timestamp, r, d) ==
    [type |-> "Dropoff", timestamp |-> timestamp, rider |-> r, driver |-> d]

\* The comparison turned round.
EventLtReversed(a, b) == a.timestamp > b.timestamp

\* The comparison with <= in the place of <.
EventLtOrEqual(a, b) == a.timestamp <= b.timestamp
EventLt(a, b) == a.timestamp < b.timestamp
EventLe(a, b) == a.timestamp <= b.timestamp

(***************************************************************************)
(* The simulation's queue: ordered by timestamp, equal timestamps in the   *)
(* order of arrival.                                                       *)
(***************************************************************************)
RECURSIVE Add(_, _)
Add(q, e) ==
    IF q = <<>> THEN <<e>>
    ELSE IF EventLt(e, Head(q)) THEN <<e>> \o q
    ELSE <<Head(q)>> \o Add(Tail(q), e)

RECURSIVE AddAll(_, _)
AddAll(q, es) ==
    IF es = <<>> THEN q ELSE AddAll(Add(q, Head(es)), Tail(es))

(***************************************************************************)
(* The monitor: an append-only list of observations.                       *)
(***************************************************************************)
RIDER == "rider"
DRIVER == "driver"
REQUEST == "request"
CANCEL == "cancel"
PICKUP == "pickup"
DROPOFF == "dropoff"

Notify(timestamp, category, action, id, location) ==
    [timestamp |-> timestamp, category |-> category, action |-> action,
     id |-> id, location |-> location]

(***************************************************************************)
(* The dispatcher.  Which driver or rider it picks is an external policy.  *)
(***************************************************************************)
\* request_driver(rider): an idle driver, or none when there is none.
RequestDriverChoices == IF available = {} THEN {NoOne} ELSE available

\* request_rider(driver): a waiting rider, or none when there is none.
WaitingSet == {waiting[i] : i \in DOMAIN waiting}
RequestRiderChoices == IF waiting = <<>> THEN {NoOne} ELSE WaitingSet

Without(seq, x) == SelectSeq(seq, LAMBDA y : y # x)

(***************************************************************************)
(* The seed scripts.                                                       *)
(***************************************************************************)
Coords == 0..MaxDist
Locs ==
    {l \in [row : Coords, column : Coords] : l.row + l.column <= MaxDist}

\* Where the rides of the seed scripts end, and where a second rider waits.
Ends == {Location(0, 0), Location(0, MaxDist)}

\* No function is called on its own during a run of the simulation.
NoCall == [kind |-> "none"]

NoEvent == [type |-> "none", timestamp |-> 0, rider |-> NoOne, driver |-> NoOne]

\* What the loop holds after a step: the event applied and the events its
\* do() returned (result: the value a directly called Driver method returned;
\* cancel_ride: the rider do() passed to Dispatcher.cancel_ride, if any).
Applied(e, produced) ==
    [event |-> e, produced |-> produced, result |-> -1, cancel_ride |-> NoOne]

Start(rs, ds, script) ==
    /\ riders = rs
    /\ drivers = ds
    /\ events = AddAll(<<>>, script)
    /\ available = {}
    /\ waiting = <<>>
    /\ log = <<>>
    /\ last = Applied(NoEvent, <<>>)
    /\ aborted = FALSE
    /\ input = NoCall
    /\ output = NoCall

\* The second rider of a script, when it has one: it asks at MaxStart for a
\* ride to (0,0) and waits MaxPatience.
SecondRiders == {Rider(o, Location(0, 0), MaxPatience) : o \in Ends}
\* The second driver of a script, when it has one: at (0,0), speed 1.
SecondDriver == Driver(Location(0, 0), 1)

Init ==
    \E o1 \in Locs, g1 \in Ends, p1 \in 1..MaxPatience,
       l1 \in Locs, s1 \in 1..MaxSpeed, t1 \in 0..MaxStart,
       withR2 \in BOOLEAN, r2 \in SecondRiders, withD2 \in BOOLEAN,
       ridersFirst \in BOOLEAN :
        LET rs == IF withR2
                  THEN ("R1" :> Rider(o1, g1, p1)) @@ ("R2" :> r2)
                  ELSE ("R1" :> Rider(o1, g1, p1))
            ds == IF withD2
                  THEN ("D1" :> Driver(l1, s1)) @@ ("D2" :> SecondDriver)
                  ELSE ("D1" :> Driver(l1, s1))
            rlines == <<RiderRequest(0, "R1")>> \o
                      (IF withR2 THEN <<RiderRequest(MaxStart, "R2")>>
                       ELSE <<>>)
            dlines == <<DriverRequest(t1, "D1")>> \o
                      (IF withD2 THEN <<DriverRequest(0, "D2")>> ELSE <<>>)
        IN  /\ withR2 \/ r2 = Rider(Location(0, 0), Location(0, 0), MaxPatience)
            /\ Start(rs, ds, IF ridersFirst THEN rlines \o dlines
                             ELSE dlines \o rlines)

(***************************************************************************)
(* event.py: what each do() decides and returns.                           *)
(***************************************************************************)
\* RiderRequest.do appending the Cancellation before the Pickup.
RiderRequestEventsCancelFirst(e, rider, d, travel_time) ==
    <<Cancellation(e.timestamp + rider.patience, e.rider)>>
    \o (IF d # NoOne THEN <<Pickup(e.timestamp + travel_time, e.rider, d)>>
        ELSE <<>>)

\* RiderRequest.do scheduling the Cancellation only when no driver was found.
RiderRequestEventsEither(e, rider, d, travel_time) ==
    IF d # NoOne THEN <<Pickup(e.timestamp + travel_time, e.rider, d)>>
    ELSE <<Cancellation(e.timestamp + rider.patience, e.rider)>>

\* RiderRequest.do: a Pickup when a driver was found, always a Cancellation.
RiderRequestEvents(e, rider, d, travel_time) ==
    (IF d # NoOne THEN <<Pickup(e.timestamp + travel_time, e.rider, d)>>
     ELSE <<>>)
    \o <<Cancellation(e.timestamp + rider.patience, e.rider)>>

\* DriverRequest.do scheduling the Pickup without adding the travel time.
DriverRequestEventsAtOnce(e, r, travel_time) ==
    IF r # NoOne THEN <<Pickup(e.timestamp, r, e.driver)>> ELSE <<>>

\* DriverRequest.do: a Pickup when a rider was found.
DriverRequestEvents(e, r, travel_time) ==
    IF r # NoOne THEN <<Pickup(e.timestamp + travel_time, r, e.driver)>>
    ELSE <<>>

\* Cancellation.do without its test: every rider is cancelled.
CancellationRefusedNever(rider) == FALSE

\* Cancellation.do cancelling only the riders whose status is WAITING.
CancellationRefusedUnlessWaiting(rider) == rider.status # WAITING

\* Cancellation.do testing for the wrong status: a cancelled rider cannot
\* cancel, a satisfied one can.
CancellationRefusedIfCancelled(rider) == rider.status = CANCELLED

\* Cancellation.do returning at once for every rider.
CancellationRefusedAlways(rider) == TRUE

\* Cancellation.do: a satisfied rider cannot cancel.
CancellationRefused(rider) == rider.status = SATISFIED

\* Pickup.do without its test: the rider is picked up whatever its status.
PickupRiderCancelledNever(rider) == FALSE

\* Pickup.do testing for the wrong status: a cancelled rider is picked up.
PickupRiderCancelledIfSatisfied(rider) == rider.status = SATISFIED

\* Pickup.do: the rider cancelled while the driver was on the way.
PickupRiderCancelled(rider) == rider.status = CANCELLED

\* Pickup.do, rider cancelled, returning nothing: the driver is forgotten.
PickupCancelledNoEvents(e) == <<>>

\* Pickup.do, rider cancelled: the driver asks for another rider at once.
PickupCancelledEvents(e) == <<DriverRequest(e.timestamp, e.driver)>>

\* Pickup.do scheduling the Dropoff without adding the ride time.
PickupEventsNoRideTime(e, ride_time) ==
    <<Dropoff(e.timestamp, e.rider, e.driver)>>

\* Pickup.do, rider present: the ride ends with a Dropoff.
PickupEvents(e, ride_time) ==
    <<Dropoff(e.timestamp + ride_time, e.rider, e.driver)>>

\* Dropoff.do returning nothing: the driver never asks again.
DropoffEventsNone(e) == <<>>

\* Dropoff.do: the driver asks for another rider at once.
DropoffEvents(e) == <<DriverRequest(e.timestamp, e.driver)>>

(***************************************************************************)
(* The loop (one step: pop the earliest event, apply it, add what it      *)
(* returned) and the events' do() methods.                                 *)
(***************************************************************************)
Running == ~aborted /\ events # <<>>

\* The end of a step: do() returned `produced`, or raised.
Finish(e, produced, raised) ==
    /\ events' = IF raised THEN Tail(events)
                 ELSE AddAll(Tail(events), produced)
    /\ last' = Applied(e, IF raised THEN <<>> ELSE produced)
    /\ aborted' = raised
    /\ UNCHANGED <<input, output>>

RiderRequestDo ==
    /\ Running
    /\ Head(events).type = "RiderRequest"
    /\ LET e == Head(events)
           r == e.rider
           rider == riders[r]
       IN  /\ log' = Append(log, Notify(e.timestamp, RIDER, REQUEST, r,
                                        rider.origin))
           /\ riders' = riders
           /\ \E d \in RequestDriverChoices :
                IF d = NoOne
                THEN /\ waiting' = Append(waiting, r)
                     /\ UNCHANGED <<drivers, available>>
                     /\ Finish(e, RiderRequestEvents(e, rider, d, 0), FALSE)
                ELSE LET drv == start_drive(drivers[d], rider.origin)
                         travel_time == get_travel_time(drv, rider.origin)
                     IN  /\ available' = available \ {d}
                         /\ waiting' = waiting
                         /\ drivers' = [drivers EXCEPT ![d] = drv]
                         /\ Finish(e,
                                   RiderRequestEvents(e, rider, d, travel_time),
                                   TravelRaises(drv, rider.origin))

DriverRequestDo ==
    /\ Running
    /\ Head(events).type = "DriverRequest"
    /\ LET e == Head(events)
           d == e.driver
       IN  /\ log' = Append(log, Notify(e.timestamp, DRIVER, REQUEST, d,
                                        drivers[d].location))
           /\ \E r \in RequestRiderChoices :
                IF r = NoOne
                THEN /\ available' = available \cup {d}
                     /\ UNCHANGED <<drivers, riders, waiting>>
                     /\ Finish(e, DriverRequestEvents(e, r, 0), FALSE)
                ELSE LET drv == start_drive(drivers[d], riders[r].origin)
                         travel_time == get_travel_time(drv, riders[r].origin)
                     IN  /\ waiting' = Without(waiting, r)
                         /\ available' = available \ {d}
                         /\ riders' = [riders EXCEPT ![r].status = WAITING]
                         /\ drivers' = [drivers EXCEPT ![d] = drv]
                         /\ Finish(e, DriverRequestEvents(e, r, travel_time),
                                   TravelRaises(drv, riders[r].origin))

CancellationDo ==
    /\ Running
    /\ Head(events).type = "Cancellation"
    /\ LET e == Head(events)
           r == e.rider
       IN  IF CancellationRefused(riders[r])
           THEN /\ UNCHANGED <<drivers, riders, available, waiting, log>>
                /\ Finish(e, <<>>, FALSE)
           ELSE /\ riders' = [riders EXCEPT ![r].status = CANCELLED]
                /\ log' = Append(log, Notify(e.timestamp, RIDER, CANCEL, r,
                                             riders[r].origin))
                /\ waiting' = Without(waiting, r)
                /\ events' = Tail(events)
                /\ last' = [Applied(e, <<>>) EXCEPT !.cancel_ride = r]
                /\ UNCHANGED <<drivers, available, aborted, input, output>>

PickupDo ==
    /\ Running
    /\ Head(events).type = "Pickup"
    /\ LET e == Head(events)
           r == e.rider
           d == e.driver
           rider == riders[r]
           arrived == end_drive(drivers[d])
       IN  IF PickupRiderCancelled(rider)
           THEN /\ drivers' = [drivers EXCEPT
                                   ![d] = [arrived EXCEPT
                                              !.location = rider.origin,
                                              !.destination = NoLoc]]
                /\ UNCHANGED <<riders, available, waiting, log>>
                /\ Finish(e, PickupCancelledEvents(e), FALSE)
           ELSE LET drv == start_ride(arrived, rider)
                    ride_time == get_travel_time(drv, rider.destination)
                    raised == TravelRaises(drv, rider.destination)
                IN  /\ log' = log \o
                           <<Notify(e.timestamp, DRIVER, PICKUP, d,
                                    rider.origin),
                             Notify(e.timestamp, RIDER, PICKUP, r,
                                    rider.origin)>>
                    /\ drivers' = [drivers EXCEPT ![d] = drv]
                    /\ riders' = IF raised THEN riders
                                 ELSE [riders EXCEPT ![r].status = SATISFIED]
                    /\ UNCHANGED <<available, waiting>>
                    /\ Finish(e, PickupEvents(e, ride_time), raised)

DropoffDo ==
    /\ Running
    /\ Head(events).type = "Dropoff"
    /\ LET e == Head(events)
           r == e.rider
           d == e.driver
       IN  /\ log' = log \o
                  <<Notify(e.timestamp, RIDER, DROPOFF, r,
                           riders[r].destination),
                    Notify(e.timestamp, DRIVER, DROPOFF, d,
                           riders[r].destination)>>
           /\ drivers' = [drivers EXCEPT ![d] = end_drive(drivers[d])]
           /\ UNCHANGED <<riders, available, waiting>>
           /\ Finish(e, DropoffEvents(e), FALSE)

Next ==
    \/ RiderRequestDo
    \/ DriverRequestDo
    \/ CancellationDo
    \/ PickupDo
    \/ DropoffDo

Spec == Init /\ [][Next]_vars

\* The loop is a plain while loop: it takes its next step as long as there is
\* one to take.
FairSpec == Spec /\ WF_vars(Next)

(***************************************************************************)
(* The Driver class used directly: its methods called in any order, between *)
(* the steps of a run.                                                     *)
(***************************************************************************)
Called(op, d, result) ==
    [event |-> [type |-> op, timestamp |-> 0, rider |-> NoOne, driver |-> d],
     produced |-> <<>>, result |-> result, cancel_ride |-> NoOne]

CallStartDrive(d, location) ==
    /\ ~aborted
    /\ LET drv == start_drive(drivers[d], location)
           raised == TravelRaises(drv, location)
       IN  /\ drivers' = [drivers EXCEPT ![d] = drv]
           /\ last' = Called("start_drive", d,
                             IF raised THEN -1
                             ELSE get_travel_time(drv, location))
           /\ aborted' = raised
    /\ UNCHANGED <<riders, events, available, waiting, log, input, output>>

CallEndDrive(d) ==
    /\ ~aborted
    /\ drivers' = [drivers EXCEPT ![d] = end_drive(drivers[d])]
    /\ last' = Called("end_drive", d, -1)
    /\ UNCHANGED <<riders, events, available, waiting, log, aborted, input,
                   output>>

CallStartRide(d, r) ==
    /\ ~aborted
    /\ LET drv == start_ride(drivers[d], riders[r])
           raised == TravelRaises(drv, riders[r].destination)
       IN  /\ drivers' = [drivers EXCEPT ![d] = drv]
           /\ last' = Called("start_ride", d,
                             IF raised THEN -1
                             ELSE get_travel_time(drv, riders[r].destination))
           /\ aborted' = raised
    /\ UNCHANGED <<riders, events, available, waiting, log, input, output>>

CallEndRide(d) ==
    /\ ~aborted
    /\ drivers' = [drivers EXCEPT ![d] = end_ride(drivers[d])]
    /\ last' = Called("end_ride", d, -1)
    /\ UNCHANGED <<riders, events, available, waiting, log, aborted, input,
                   output>>

DriverInit ==
    \E o1 \in Locs, g1 \in Ends, l1 \in Locs, s1 \in 1..MaxSpeed,
       riderFirst \in BOOLEAN :
        Start("R1" :> Rider(o1, g1, 1), "D1" :> Driver(l1, s1),
              IF riderFirst
              THEN <<RiderRequest(0, "R1"), DriverRequest(0, "D1")>>
              ELSE <<DriverRequest(0, "D1"), RiderRequest(0, "R1")>>)

DriverNext ==
    \/ Next
    \/ \E d \in DOMAIN drivers, location \in Ends : CallStartDrive(d, location)
    \/ \E d \in DOMAIN drivers : CallEndDrive(d)
    \/ \E d \in DOMAIN drivers, r \in DOMAIN riders : CallStartRide(d, r)
    \/ \E d \in DOMAIN drivers : CallEndRide(d)

DriverSpec == DriverInit /\ [][DriverNext]_vars

(***************************************************************************)
(* The scripts of the worked example of the design document: rider R1 asks  *)
(* at 0 for a ride from (0,0) to (0,3) with patience 20, driver D1 of speed  *)
(* 1 is registered at (0,0) before that; a second rider and a second driver *)
(* may be around.                                                          *)
(***************************************************************************)
HappyRider == Rider(Location(0, 0), Location(0, 3), 20)
HappyDriver == Driver(Location(0, 0), 1)

HappyInit ==
    \E withR2 \in BOOLEAN, o2 \in Locs, g2 \in Ends, p2 \in 1..MaxPatience,
       t2 \in 0..MaxStart, withD2 \in BOOLEAN, l2 \in Locs,
       s2 \in 1..MaxSpeed :
        LET rs == IF withR2
                  THEN ("R1" :> HappyRider) @@ ("R2" :> Rider(o2, g2, p2))
                  ELSE ("R1" :> HappyRider)
            ds == IF withD2
                  THEN ("D1" :> HappyDriver) @@ ("D2" :> Driver(l2, s2))
                  ELSE ("D1" :> HappyDriver)
        IN  Start(rs, ds,
                  <<DriverRequest(0, "D1")>> \o
                  (IF withD2 THEN <<DriverRequest(0, "D2")>> ELSE <<>>) \o
                  <<RiderRequest(0, "R1")>> \o
                  (IF withR2 THEN <<RiderRequest(t2, "R2")>> ELSE <<>>))

HappySpec == HappyInit /\ [][Next]_vars

(***************************************************************************)
(* Properties.                                                             *)
(***************************************************************************)
AllDrivers == {"D1", "D2"}

\* The step just taken applied a Pickup whose rider had cancelled (a Pickup
\* of a rider that had not cancelled leaves the rider satisfied).
PickupFoundCancelled ==
    /\ last.event.type = "Pickup"
    /\ riders[last.event.rider].status = CANCELLED

\* C1 (race handling): once a rider is cancelled it stays cancelled, so it
\* never becomes satisfied; and a Pickup applied to a rider that is already
\* cancelled returns a DriverRequest for its driver at the Pickup's own
\* timestamp, and nothing else (no Dropoff).
C1_RaceHandling ==
    [][\A r \in DOMAIN riders :
          riders[r].status = CANCELLED =>
            /\ riders'[r].status = CANCELLED
            /\ (last'.event.type = "Pickup" /\ last'.event.rider = r) =>
                  last'.produced =
                    <<DriverRequest(last'.event.timestamp,
                                    last'.event.driver)>>]_vars

C1_Witness ==
    /\ PickupFoundCancelled
    /\ last.produced = <<DriverRequest(last.event.timestamp,
                                        last.event.driver)>>
    /\ last.event.timestamp > 0

\* C2 (driver invariant): in every state, whether reached by the methods of
\* Driver called directly or by applying events, a driver has no destination
\* if and only if it is idle.
C2_DriverInvariant ==
    \A d \in DOMAIN drivers :
        (drivers[d].destination = NoLoc) <=> drivers[d].is_idle

C2_Witness ==
    /\ last.event.type = "start_ride"
    /\ ~drivers[last.event.driver].is_idle
    /\ drivers[last.event.driver].destination # NoLoc
    /\ log # <<>>

\* C3 (terminal status): a rider that is satisfied stays satisfied over every
\* step of the run, whichever event is applied.
C3_SatisfiedIsTerminal ==
    [][\A r \in DOMAIN riders :
          riders[r].status = SATISFIED => riders'[r].status = SATISFIED]_vars

C3_Witness ==
    /\ last.event.type = "Cancellation"
    /\ riders[last.event.rider].status = SATISFIED

\* C4 (timestamp monotonicity): every event returned by applying an event
\* carries a timestamp that is at least the applied event's timestamp.
C4_TimestampMonotonic ==
    \A i \in DOMAIN last.produced :
        last.produced[i].timestamp >= last.event.timestamp

C4_Witness ==
    /\ last.event.type = "RiderRequest"
    /\ Len(last.produced) = 2
    /\ last.produced[1].timestamp > last.event.timestamp
    /\ last.produced[2].timestamp > last.produced[1].timestamp

\* C6 (queue draining): under a dispatcher that only matches riders of its
\* waiting pool and drivers of its idle pool, every run of the loop reaches
\* a state whose event queue is empty.
C6_QueueDrains == <>(events = <<>>)

C6_Witness ==
    /\ events = <<>>
    /\ ~aborted
    /\ \E r \in DOMAIN riders : riders[r].status = SATISFIED
    /\ \E r \in DOMAIN riders : riders[r].status = CANCELLED

\* The worked example, with the Pickup at pickup_time and the Dropoff at
\* dropoff_time: the request of R1 at 0, answered with D1 standing at (0,0),
\* returns that Pickup and the Cancellation at 20; the Pickup returns that
\* Dropoff and leaves R1 satisfied; the Cancellation at 20 finds R1 satisfied
\* and changes no rider, no driver and not the monitor's log; R1 is satisfied
\* when the queue is empty.
HappyStep(pickup_time, dropoff_time) ==
    /\ (/\ last'.event = RiderRequest(0, "R1")
        /\ "D1" \in available
        /\ drivers["D1"] = HappyDriver
        /\ ~drivers'["D1"].is_idle)
       => last'.produced = <<Pickup(pickup_time, "R1", "D1"),
                             Cancellation(20, "R1")>>
    /\ (\E t \in 0..pickup_time : last'.event = Pickup(t, "R1", "D1"))
       => /\ last'.event.timestamp = pickup_time
          /\ last'.produced = <<Dropoff(dropoff_time, "R1", "D1")>>
          /\ riders'["R1"].status = SATISFIED
    /\ (last'.event = Cancellation(20, "R1") /\ events # <<>>
         /\ Head(events) = Cancellation(20, "R1"))
       => /\ riders["R1"].status = SATISFIED
          /\ UNCHANGED <<riders, drivers, log>>
          /\ last'.produced = <<>>
    /\ events' = <<>> => riders'["R1"].status = SATISFIED

\* C7 (happy path), as amended: the driver is already at the rider's origin,
\* so the Pickup is scheduled at 0 (travel time 0) and the Dropoff at 3
\* (ride time 3); the rider ends satisfied and the Cancellation at 20 is a
\* no-op.
C7_HappyPath == [][HappyStep(0, 3)]_vars

\* C7 as stated: the Pickup scheduled at 3 and the Dropoff at 6.
C7_HappyPathAsStated == [][HappyStep(3, 6)]_vars

C7_Witness ==
    /\ last.event = Cancellation(20, "R1")
    /\ riders["R1"].status = SATISFIED
    /\ drivers["D1"].location = Location(0, 3)
    /\ \E i \in DOMAIN log :
          log[i] = Notify(3, DRIVER, DROPOFF, "D1", Location(0, 3))

\* C8 (no-match path): a RiderRequest applied while the dispatcher has no
\* idle driver returns exactly one event, the rider's Cancellation at the
\* request's timestamp plus the rider's patience; a Cancellation applied to
\* a rider still in the waiting pool (never matched) cancels it; and a
\* cancelled rider stays cancelled to the end of the run.
C8_NoMatchPath ==
    [][\A r \in DOMAIN riders :
          /\ (/\ Running
              /\ Head(events).type = "RiderRequest"
              /\ Head(events).rider = r
              /\ available = {})
             => last'.produced =
                  <<Cancellation(Head(events).timestamp + riders[r].patience,
                                 r)>>
          /\ (/\ Running
              /\ Head(events).type = "Cancellation"
              /\ Head(events).rider = r
              /\ r \in WaitingSet)
             => riders'[r].status = CANCELLED
          /\ riders[r].status = CANCELLED => riders'[r].status = CANCELLED
      ]_vars

C8_Witness ==
    /\ last.event.type = "Cancellation"
    /\ riders[last.event.rider].status = CANCELLED
    /\ \A i \in DOMAIN log :
          log[i].id = last.event.rider => log[i].action \in {REQUEST, CANCEL}
    /\ \A i \in DOMAIN events :
          ~(events[i].type = "Pickup" /\ events[i].rider = last.event.rider)
    /\ available = {}

\* C9 (driver release): a Pickup applied to a cancelled rider leaves its
\* driver idle, without destination and at the rider's origin, and returns
\* exactly one event, a DriverRequest for that driver at the Pickup's
\* timestamp; and that DriverRequest is eventually applied, which offers the
\* driver to the dispatcher again.
C9_DriverRelease ==
    /\ [](PickupFoundCancelled =>
            LET d == last.event.driver
            IN  /\ drivers[d].is_idle
                /\ drivers[d].destination = NoLoc
                /\ drivers[d].location = riders[last.event.rider].origin
                /\ last.produced = <<DriverRequest(last.event.timestamp, d)>>)
    /\ \A d \in AllDrivers :
          (PickupFoundCancelled /\ last.event.driver = d)
            ~> (last.event.type = "DriverRequest" /\ last.event.driver = d)

C9_Witness ==
    /\ last.event.type = "DriverRequest"
    /\ \E i \in DOMAIN log :
          /\ log[i] = Notify(last.event.timestamp, DRIVER, REQUEST,
                             last.event.driver,
                             drivers[last.event.driver].location)
          /\ i > 1
    /\ \E r \in DOMAIN riders :
          /\ riders[r].status = CANCELLED
          /\ riders[r].origin = drivers[last.event.driver].location
          /\ \A i \in DOMAIN log :
                log[i].action = PICKUP => log[i].id # last.event.driver
    /\ Len(SelectSeq(log, LAMBDA n : n.id = last.event.driver)) = 2

\* C10 (ending a drive without destination is fatal): a call of end_drive or
\* end_ride on a driver that has no destination ends the run with an error.
C10_EndWithoutDestinationIsFatal ==
    [][\A d \in DOMAIN drivers :
          (/\ last'.event.type \in {"end_drive", "end_ride"}
           /\ last'.event.driver = d
           /\ drivers[d].destination = NoLoc)
          => aborted']_vars

(***************************************************************************)
(* Functions called on their own, outside a run of the simulation: the     *)
(* argument is in input, and output holds what the call gave back.         *)
(***************************************************************************)
Standalone(arg) ==
    /\ riders = <<>>
    /\ drivers = <<>>
    /\ events = <<>>
    /\ available = {}
    /\ waiting = <<>>
    /\ log = <<>>
    /\ last = Applied(NoEvent, <<>>)
    /\ aborted = FALSE
    /\ input = arg
    /\ output = NoCall

Returned(value) == [kind |-> "returned", value |-> value]

Raised(error) == [kind |-> "raised", error |-> error]

Return(out) ==
    /\ output' = out
    /\ UNCHANGED <<drivers, riders, events, available, waiting, log, last,
                   aborted, input>>

(***************************************************************************)
(* event.py: create_event_list.  A line of the file is kept as the tokens  *)
(* line.split() gives: the timestamp, the event type, the identifier, the  *)
(* location strings "row,col" (as pairs) and the last, numeric token.      *)
(***************************************************************************)
MaxLines == 2

None == [type |-> "None"]

ScriptLine(timestamp, event_type, id, places, number) ==
    [skipped |-> FALSE, timestamp |-> timestamp, event_type |-> event_type,
     id |-> id, places |-> places, number |-> number]

\* A blank line, or one that starts with #.
SkippedLine(text) ==
    [skipped |-> TRUE, timestamp |-> 0, event_type |-> text, id |-> NoOne,
     places |-> <<>>, number |-> 0]

deserialize_location(location_str) ==
    Location(location_str[1], location_str[2])

\* An event of the list, with the Driver or Rider object built for it.
Loaded(e, object) == [event |-> e, object |-> object]

LineEvent(line) ==
    IF line.event_type = "DriverRequest"
    THEN Loaded(DriverRequest(line.timestamp, line.id),
                Driver(deserialize_location(line.places[1]), line.number))
    ELSE IF line.event_type = "RiderRequest"
    THEN Loaded(RiderRequest(line.timestamp, line.id),
                Rider(deserialize_location(line.places[1]),
                      deserialize_location(line.places[2]), line.number))
    ELSE None

RECURSIVE create_event_list(_)
create_event_list(file) ==
    IF file = <<>>
    THEN <<>>
    ELSE IF Head(file).skipped
    THEN create_event_list(Tail(file))
    ELSE <<LineEvent(Head(file))>> \o create_event_list(Tail(file))

\* The lines a file is made of: driver lines of any integer speed, rider
\* lines, a line of another event type, a blank line and a comment.
DriverLines ==
    {ScriptLine(0, "DriverRequest", "D1", <<l>>, s) :
        l \in {<<0, 0>>, <<0, MaxDist>>}, s \in -1..MaxSpeed}

RiderLines ==
    {ScriptLine(MaxStart, "RiderRequest", "R1", <<<<0, 0>>, <<0, MaxDist>>>>,
                p) : p \in 1..MaxPatience}

OtherLines == {ScriptLine(MaxStart, "Pickup", "R1", <<>>, 0)}

SkippedLines == {SkippedLine(""), SkippedLine("#")}

Lines == DriverLines \cup RiderLines \cup OtherLines \cup SkippedLines

Files == UNION {[1..n -> Lines] : n \in 0..MaxLines}

LoadInit == \E file \in Files : Standalone(file)

Load ==
    /\ output = NoCall
    /\ Return(Returned(create_event_list(input)))

LoadSpec == LoadInit /\ [][Load]_vars

\* The drivers of a loaded event list.
LoadedDrivers ==
    IF output.kind = "returned"
    THEN {output.value[i].object : i \in
             {j \in DOMAIN output.value :
                 /\ output.value[j] # None
                 /\ output.value[j].event.type = "DriverRequest"}}
    ELSE {}

\* C11: a Driver with a speed that is not positive is never constructed:
\* every driver of a loaded event list has a speed above zero, so no travel
\* time is a division by zero or negative.
C11_SpeedIsPositive == \A drv \in LoadedDrivers : drv.speed > 0

\* The place of a pending event in the queue.
Pos(q, e) == CHOOSE i \in DOMAIN q : q[i] = e

\* One event is before another in the queue.
Before(q, a, b) == Pos(q, a) < Pos(q, b)

Sorted(q) == \A i, j \in DOMAIN q : i < j => q[i].timestamp <= q[j].timestamp

\* C12: events are applied in non-decreasing timestamp order, equal
\* timestamps in the order of insertion: every step applies the head of the
\* queue, whose timestamp is not below the one applied before; the queue
\* stays sorted by timestamp; the events left pending keep their order; and
\* an event inserted by the step goes behind every pending event of the same
\* timestamp, and behind the events of the same timestamp the step inserted
\* before it.
C12_ApplicationOrder ==
    [][LET pending == Tail(events)
           produced == last'.produced
       IN  /\ last'.event = Head(events)
           /\ last.event.timestamp <= last'.event.timestamp
           /\ Sorted(events)
           /\ Sorted(events')
           /\ Len(events') = Len(pending) + Len(produced)
           /\ \A i, j \in DOMAIN pending :
                  i < j => Before(events', pending[i], pending[j])
           /\ \A i \in DOMAIN pending : \A j \in DOMAIN produced :
                  pending[i].timestamp = produced[j].timestamp
                      => Before(events', pending[i], produced[j])
           /\ \A i, j \in DOMAIN produced :
                  (i < j /\ produced[i].timestamp = produced[j].timestamp)
                      => Before(events', produced[i], produced[j])]_vars

\* A step has inserted an event behind a pending one of the same timestamp.
C12_Witness ==
    /\ last.produced # <<>>
    /\ \E i, j \in DOMAIN events :
           /\ i < j
           /\ events[j] = last.produced[1]
           /\ events[i].timestamp = events[j].timestamp
           /\ events[i] \notin {last.produced[k] : k \in DOMAIN last.produced}

\* The rider's RiderRequest has been applied: the monitor has its request.
RequestApplied(r) ==
    \E i \in DOMAIN log :
        log[i].category = RIDER /\ log[i].action = REQUEST /\ log[i].id = r

\* C13: once a rider's RiderRequest has been applied the rider's status is
\* Waiting, Satisfied or Cancelled, never unset.
C13_StatusSetAfterRequest ==
    \A r \in DOMAIN riders :
        RequestApplied(r) => riders[r].status \in {WAITING, SATISFIED, CANCELLED}

(***************************************************************************)
(* location.py called on its own: the distances between three locations    *)
(* of a grid that has negative coordinates too.                            *)
(***************************************************************************)
GridLocs == [row : -1..MaxDist, column : -1..MaxDist]

\* Location.__eq__
LocationEq(a, b) == a.row = b.row /\ a.column = b.column

MetricInit ==
    \E a, b, c \in GridLocs : Standalone([kind |-> "locations", a |-> a,
                                          b |-> b, c |-> c])

Measure ==
    /\ output = NoCall
    /\ Return(Returned([ab |-> manhattan_distance(input.a, input.b),
                        ba |-> manhattan_distance(input.b, input.a),
                        bc |-> manhattan_distance(input.b, input.c),
                        ac |-> manhattan_distance(input.a, input.c)]))

MetricSpec == MetricInit /\ [][Measure]_vars

Gap(x, y) == IF x >= y THEN x - y ELSE y - x

\* C14: manhattan_distance is a metric: the distance of a and b is
\* |a.row - b.row| + |a.column - b.column|, the same in both directions,
\* never negative, zero exactly when a equals b, and the distance of a and c
\* is at most the distance of a and b plus that of b and c.
C14_Metric ==
    output.kind = "returned" =>
        LET d == output.value
        IN  /\ d.ab = Gap(input.a.row, input.b.row)
                      + Gap(input.a.column, input.b.column)
            /\ d.ab = d.ba
            /\ d.ab >= 0
            /\ (d.ab = 0) <=> LocationEq(input.a, input.b)
            /\ d.ac <= d.ab + d.bc

\* Three different locations measured, the way through b being a detour.
C14_Witness ==
    /\ output.kind = "returned"
    /\ ~LocationEq(input.a, input.b)
    /\ ~LocationEq(input.b, input.c)
    /\ input.a.row < 0
    /\ input.b.column < input.a.column
    /\ output.value.ac < output.value.ab + output.value.bc

\* The file has a line that is read and whose event type is neither
\* DriverRequest nor RiderRequest.
Malformed(file) ==
    \E i \in DOMAIN file :
        /\ ~file[i].skipped
        /\ file[i].event_type \notin {"DriverRequest", "RiderRequest"}

\* C15: a file with a line of an unknown event type is not loaded: the call
\* fails, and no returned list has a null entry.
C15_MalformedLineFails ==
    output.kind = "returned" =>
        /\ ~Malformed(input)
        /\ \A i \in DOMAIN output.value : output.value[i] # None

(***************************************************************************)
(* mn_puzzle.py.  A grid is a sequence of rows, a row a sequence of        *)
(* symbols; Python's index k is k + 1 here.                                *)
(***************************************************************************)
MaxRows == 4
MaxColumns == 4

MNPuzzle(from_grid, to_grid) ==
    [n |-> Len(from_grid), m |-> Len(from_grid[1]), from_grid |-> from_grid,
     to_grid |-> to_grid]

\* x in line
In(x, line) == \E k \in DOMAIN line : line[k] = x

\* list.index(x): the first place of x.
Index(list, x) ==
    CHOOSE k \in DOMAIN list : list[k] = x /\ \A h \in 1..(k - 1) : list[h] # x

\* The row and column the search for "*" ends with (lines 107-112): those of
\* the last line holding a "*", looked up by value; the first row and column
\* when there is none.
BlankRow(grid) ==
    LET holding == {k \in DOMAIN grid : In("*", grid[k])}
    IN  IF holding = {} THEN 1
        ELSE Index(grid, grid[CHOOSE k \in holding : \A h \in holding : h <= k])

BlankColumn(grid) ==
    IF \E k \in DOMAIN grid : In("*", grid[k])
    THEN Index(grid[BlankRow(grid)], "*")
    ELSE 1

\* grid_list[row][column] = grid_list[row2][column2]; the latter = "*"
MoveBlank(grid, row, column, row2, column2) ==
    LET first == [grid EXCEPT ![row][column] = grid[row2][column2]]
    IN  [first EXCEPT ![row2][column2] = "*"]

\* Line 124, 1 < column < len(row): from the third column on.
MNLeft(column, width) == 2 < column /\ column <= width

\* Line 140, 1 < row < len(grid): from the third row on.
MNUp(row, height) == 2 < row /\ row <= height

MNExtensions(puzzle) ==
    LET grid == puzzle.from_grid
        row == BlankRow(grid)
        column == BlankColumn(grid)
        to(row2, column2) ==
            <<MNPuzzle(MoveBlank(grid, row, column, row2, column2),
                       puzzle.to_grid)>>
    IN  (IF column < Len(grid[row]) THEN to(row, column + 1) ELSE <<>>)
        \o (IF MNLeft(column, Len(grid[row])) THEN to(row, column - 1)
            ELSE <<>>)
        \o (IF row < Len(grid) THEN to(row + 1, column) ELSE <<>>)
        \o (IF MNUp(row, Len(grid)) THEN to(row - 1, column) ELSE <<>>)

\* The symbols of the tiles: two digits each.
Digits == <<"0", "1", "2", "3", "4", "5", "6", "7", "8", "9">>

Symbol(k) == Digits[(k \div 10) + 1] \o Digits[(k % 10) + 1]

\* The n x m grid with the tiles in order and the blank in the given place,
\* places counted row by row.
GridWithBlank(n, m, blank) ==
    [i \in 1..n |->
        [j \in 1..m |->
            LET place == (i - 1) * m + j
            IN  IF place = blank THEN "*"
                ELSE IF place < blank THEN Symbol(place)
                ELSE Symbol(place - 1)]]

MNInit ==
    \E n \in 1..MaxRows, m \in 1..MaxColumns :
        \E blank \in 1..(n * m) :
            Standalone(MNPuzzle(GridWithBlank(n, m, blank),
                                GridWithBlank(n, m, n * m)))

MNExtend ==
    /\ output = NoCall
    /\ Return(Returned(MNExtensions(input)))

MNSpec == MNInit /\ [][MNExtend]_vars

\* The places next to (row, column) inside an n x m grid.
Neighbours(n, m, row, column) ==
    {pl \in (1..n) \X (1..m) :
        \/ pl[1] = row /\ pl[2] \in {column - 1, column + 1}
        \/ pl[2] = column /\ pl[1] \in {row - 1, row + 1}}

\* The place of the "*" of a grid.
BlankPlace(grid) ==
    CHOOSE pl \in (DOMAIN grid) \X (DOMAIN grid[1]) : grid[pl[1]][pl[2]] = "*"

\* C16: MNPuzzle.extensions returns one puzzle for every neighbour of the
\* blank inside the grid, the blank swapped with that neighbour, and nothing
\* else; each has the target grid of the puzzle extended.
C16_AllBlankMoves ==
    output.kind = "returned" =>
        LET grid == input.from_grid
            at == BlankPlace(grid)
            next == Neighbours(input.n, input.m, at[1], at[2])
            moved(pl) == [[grid EXCEPT ![at[1]][at[2]] = grid[pl[1]][pl[2]]]
                              EXCEPT ![pl[1]][pl[2]] = "*"]
        IN  /\ Len(output.value) = Cardinality(next)
            /\ {output.value[k].from_grid : k \in DOMAIN output.value}
                   = {moved(pl) : pl \in next}
            /\ \A k \in DOMAIN output.value :
                   output.value[k].to_grid = input.to_grid

(***************************************************************************)
(* grid_peg_solitaire_puzzle.py: extensions.  marker_copy is a copy of the *)
(* outer list only, so its rows are the rows of self._marker: every write  *)
(* to marker_copy[...][...] is a write to the puzzle's own grid, and every *)
(* puzzle of the returned list holds those same rows.  The walk keeps the  *)
(* grid as it stands (marker), the number of puzzles appended so far       *)
(* (count) and whether an exception has ended it (raised).                 *)
(***************************************************************************)
PegRows == 3
PegColumns == 3

Put(marker, row, column, x) == [marker EXCEPT ![row][column] = x]

\* Lines 112-122: i runs over the line; a match writes ".", "." and "*" to
\* the one cell [index][i] and appends a puzzle.
RECURSIVE PegLeftToRight(_, _, _, _)
PegLeftToRight(st, p, index, i) ==
    IF i > Len(st.marker[p]) - 2 THEN st
    ELSE IF /\ st.marker[p][i] = "*"
            /\ st.marker[p][i + 1] = "*"
            /\ st.marker[p][i + 2] = "."
    THEN PegLeftToRight(
             [marker |-> Put(Put(Put(st.marker, index, i, "."),
                                 index, i, "."), index, i, "*"),
              count |-> st.count + 1, raised |-> FALSE],
             p, index, i + 1)
    ELSE PegLeftToRight(st, p, index, i + 1)

\* Lines 125-135: the loop counts j but reads line[i], line[i+1], line[i+2]
\* with the i the loop before ended on, the last place but one: when a line
\* longer than two cells ends with ".", "*" the read of line[i+2] is past
\* the end and raises IndexError; otherwise nothing happens.
PegRightToLeftRaises(line) ==
    /\ Len(line) > 2
    /\ line[Len(line) - 1] = "."
    /\ line[Len(line)] = "*"

\* Lines 138-163: k runs over the columns; where the line read has found[1],
\* and the two rows under row index have found[2] and found[3], the three
\* cells under row index are written and a puzzle is appended.  Nothing is
\* done for the last two rows.
RECURSIVE PegVertical(_, _, _, _, _, _)
PegVertical(st, p, index, k, found, written) ==
    IF k > Len(st.marker[p]) THEN st
    ELSE IF /\ index < Len(st.marker) - 1
            /\ st.marker[p][k] = found[1]
            /\ st.marker[index + 1][k] = found[2]
            /\ st.marker[index + 2][k] = found[3]
    THEN PegVertical(
             [marker |-> Put(Put(Put(st.marker, index, k, written[1]),
                                 index + 1, k, written[2]),
                             index + 2, k, written[3]),
              count |-> st.count + 1, raised |-> FALSE],
             p, index, k + 1, found, written)
    ELSE PegVertical(st, p, index, k + 1, found, written)

\* The body of "for line in self._marker" for the p-th row: index is the
\* first row equal to it (line 109).
PegLine(st, p) ==
    LET index == Index(st.marker, st.marker[p])
        horizontal == PegLeftToRight(st, p, index, 1)
    IN  IF PegRightToLeftRaises(horizontal.marker[p])
        THEN [horizontal EXCEPT !.raised = TRUE]
        ELSE PegVertical(
                 PegVertical(horizontal, p, index, 1, <<".", "*", "*">>,
                             <<"*", ".", ".">>),
                 p, index, 1, <<"*", "*", ".">>, <<".", ".", "*">>)

RECURSIVE PegLines(_, _)
PegLines(st, p) ==
    IF p > Len(st.marker) \/ st.raised THEN st
    ELSE PegLines(PegLine(st, p), p + 1)

\* What the call leaves: the puzzles of the returned list as they read then
\* (all on the rows of the puzzle extended), and that puzzle's own grid.
PegExtensions(marker) ==
    LET st == PegLines([marker |-> marker, count |-> 0, raised |-> FALSE], 1)
    IN  IF st.raised
        THEN Raised([type |-> "IndexError", marker |-> st.marker])
        ELSE Returned([extensions |-> [k \in 1..st.count |-> st.marker],
                       marker |-> st.marker])

PegInit ==
    \E marker \in [1..PegRows -> [1..PegColumns -> {"*", "."}]] :
        Standalone(marker)

PegExtend ==
    /\ output = NoCall
    /\ Return(PegExtensions(input))

PegSpec == PegInit /\ [][PegExtend]_vars

\* The jumps of a grid: a peg at from, a peg next to it at over, and a hole
\* at to directly beyond, in a row or in a column.
PegJumps(marker) ==
    LET places == (DOMAIN marker) \X (DOMAIN marker[1])
        peg(pl) == pl \in places /\ marker[pl[1]][pl[2]] = "*"
        hole(pl) == pl \in places /\ marker[pl[1]][pl[2]] = "."
    IN  {jump \in [from : places, over : places, to : places] :
            /\ \E step \in {<<0, 1>>, <<0, -1>>, <<1, 0>>, <<-1, 0>>} :
                   /\ jump.over = <<jump.from[1] + step[1],
                                    jump.from[2] + step[2]>>
                   /\ jump.to = <<jump.over[1] + step[1],
                                  jump.over[2] + step[2]>>
            /\ peg(jump.from)
            /\ peg(jump.over)
            /\ hole(jump.to)}

\* The grid after a jump.
AfterJump(marker, jump) ==
    [i \in DOMAIN marker |->
        [j \in DOMAIN marker[i] |->
            IF <<i, j>> \in {jump.from, jump.over} THEN "."
            ELSE IF <<i, j>> = jump.to THEN "*"
            ELSE marker[i][j]]]

Pegs(marker) ==
    Cardinality({pl \in (DOMAIN marker) \X (DOMAIN marker[1]) :
                    marker[pl[1]][pl[2]] = "*"})

\* C17: GridPegSolitairePuzzle.extensions returns, for every grid, exactly
\* the grids one jump away, one puzzle for each jump, each with one peg fewer
\* than the grid extended.
C17_AllSingleJumps ==
    /\ output.kind # "raised"
    /\ output.kind = "returned" =>
           LET found == output.value.extensions
           IN  /\ Len(found) = Cardinality(PegJumps(input))
               /\ {found[k] : k \in DOMAIN found}
                      = {AfterJump(input, jump) : jump \in PegJumps(input)}
               /\ \A k \in DOMAIN found : Pegs(found[k]) = Pegs(input) - 1

\* The travel time of a driver standing at `from`, of the given speed, to
\* the location `to`: the distance over the speed, rounded.
TravelTime(from, to, speed) ==
    Round(Gap(from.row, to.row) + Gap(from.column, to.column), speed)

\* C18: a RiderRequest applied at t for rider r returns a Cancellation for r
\* at t + r.patience in every case; a Pickup(r, d) at t + the travel time of
\* d to r.origin comes before it exactly when the dispatcher gave a driver d,
\* which is then busy and heading for r.origin; nothing else is returned.
C18_RiderRequestEvents ==
    [][(Running /\ Head(events).type = "RiderRequest") =>
        LET e == Head(events)
            r == e.rider
            rider == riders[r]
            cancel == Cancellation(e.timestamp + rider.patience, r)
        IN  IF available = {}
            THEN /\ last'.produced = <<cancel>>
                 /\ drivers' = drivers
            ELSE \E d \in available :
                    /\ available' = available \ {d}
                    /\ last'.produced =
                           <<Pickup(e.timestamp
                                    + TravelTime(drivers[d].location,
                                                 rider.origin,
                                                 drivers[d].speed), r, d),
                             cancel>>
                    /\ ~drivers'[d].is_idle
                    /\ drivers'[d].destination = rider.origin
                    /\ \A o \in DOMAIN drivers \ {d} : drivers'[o] = drivers[o]]_vars

\* A RiderRequest found a driver some way off: a Pickup later than the
\* request, and the Cancellation.
C18_Witness ==
    /\ last.event.type = "RiderRequest"
    /\ Len(last.produced) = 2
    /\ last.produced[1].type = "Pickup"
    /\ last.produced[1].timestamp > last.event.timestamp
    /\ last.produced[2].type = "Cancellation"
    /\ ~drivers[last.produced[1].driver].is_idle

\* C19: a DriverRequest applied at t for driver d: when the dispatcher gives
\* a rider r, r is Waiting, d is busy and heading for r.origin, and the one
\* event returned is Pickup(r, d) at t + the travel time of d to r.origin;
\* when it gives none nothing is returned and d is left as it was.
C19_DriverRequestEvents ==
    [][(Running /\ Head(events).type = "DriverRequest") =>
        LET e == Head(events)
            d == e.driver
        IN  IF waiting = <<>>
            THEN /\ last'.produced = <<>>
                 /\ drivers'[d] = drivers[d]
                 /\ drivers[d].is_idle
            ELSE \E r \in WaitingSet :
                    /\ riders'[r].status = WAITING
                    /\ ~drivers'[d].is_idle
                    /\ drivers'[d].destination = riders[r].origin
                    /\ last'.produced =
                           <<Pickup(e.timestamp
                                    + TravelTime(drivers[d].location,
                                                 riders[r].origin,
                                                 drivers[d].speed), r, d)>>]_vars

\* A DriverRequest found a waiting rider some way off.
C19_Witness ==
    /\ last.event.type = "DriverRequest"
    /\ Len(last.produced) = 1
    /\ last.produced[1].type = "Pickup"
    /\ last.produced[1].timestamp > last.event.timestamp
    /\ riders[last.produced[1].rider].status = WAITING
    /\ ~drivers[last.event.driver].is_idle

\* C20: a Pickup applied at t whose rider r is not cancelled: the driver d is
\* at r.origin, the monitor has got a pickup of the driver and a pickup of
\* the rider, both at t and r.origin, d is busy and heading for
\* r.destination, r is Satisfied, and the one event returned is
\* Dropoff(r, d) at t + the travel time from r.origin to r.destination at
\* d's speed.
C20_PickupEvents ==
    [][(/\ Running
        /\ Head(events).type = "Pickup"
        /\ riders[Head(events).rider].status # CANCELLED) =>
        LET e == Head(events)
            r == e.rider
            d == e.driver
            rider == riders[r]
        IN  /\ drivers'[d].location = rider.origin
            /\ Len(log') = Len(log) + 2
            /\ {log'[k] : k \in (Len(log) + 1)..Len(log')} =
                   {Notify(e.timestamp, DRIVER, PICKUP, d, rider.origin),
                    Notify(e.timestamp, RIDER, PICKUP, r, rider.origin)}
            /\ ~drivers'[d].is_idle
            /\ drivers'[d].destination = rider.destination
            /\ riders'[r].status = SATISFIED
            /\ last'.produced =
                   <<Dropoff(e.timestamp
                             + TravelTime(rider.origin, rider.destination,
                                          drivers[d].speed), r, d)>>]_vars

\* A rider has been picked up for a ride of some length.
C20_Witness ==
    /\ last.event.type = "Pickup"
    /\ Len(last.produced) = 1
    /\ last.produced[1].type = "Dropoff"
    /\ last.produced[1].timestamp > last.event.timestamp
    /\ riders[last.event.rider].status = SATISFIED
    /\ drivers[last.event.driver].destination
           = riders[last.event.rider].destination
    /\ riders[last.event.rider].origin # riders[last.event.rider].destination

\* C21: a Dropoff applied at t for rider r and driver d: the monitor gets a
\* dropoff of the rider and a dropoff of the driver, d is idle at
\* r.destination with no destination, the one event returned is
\* DriverRequest(d) at t, and r is left as it was, Satisfied.
C21_DropoffEvents ==
    [][(Running /\ Head(events).type = "Dropoff") =>
        LET e == Head(events)
            r == e.rider
            d == e.driver
        IN  /\ Len(log') = Len(log) + 2
            /\ {log'[k] : k \in (Len(log) + 1)..Len(log')} =
                   {Notify(e.timestamp, RIDER, DROPOFF, r,
                           riders[r].destination),
                    Notify(e.timestamp, DRIVER, DROPOFF, d,
                           riders[r].destination)}
            /\ drivers'[d].is_idle
            /\ drivers'[d].destination = NoLoc
            /\ drivers'[d].location = riders[r].destination
            /\ last'.produced = <<DriverRequest(e.timestamp, d)>>
            /\ riders' = riders
            /\ riders[r].status = SATISFIED]_vars

\* A rider has been dropped off away from where the ride began.
C21_Witness ==
    /\ last.event.type = "Dropoff"
    /\ last.produced = <<DriverRequest(last.event.timestamp,
                                       last.event.driver)>>
    /\ drivers[last.event.driver].is_idle
    /\ drivers[last.event.driver].location
           = riders[last.event.rider].destination
    /\ riders[last.event.rider].origin # riders[last.event.rider].destination

\* C22: a Cancellation applied to a Satisfied rider does nothing: no event is
\* returned, the riders, the drivers and the dispatcher's pools are as
\* before, the monitor gets nothing and cancel_ride is not called.
C22_CancelSatisfiedIsNoOp ==
    [][(/\ Running
        /\ Head(events).type = "Cancellation"
        /\ riders[Head(events).rider].status = SATISFIED) =>
        /\ last'.produced = <<>>
        /\ last'.cancel_ride = NoOne
        /\ events' = Tail(events)
        /\ UNCHANGED <<riders, drivers, available, waiting, log>>]_vars

\* The Cancellation of a rider picked up before has been applied.
C22_Witness ==
    /\ last.event.type = "Cancellation"
    /\ riders[last.event.rider].status = SATISFIED
    /\ last.cancel_ride = NoOne
    /\ \E i \in DOMAIN log :
           log[i].action = PICKUP /\ log[i].id = last.event.rider

\* C23: a Cancellation applied at t to a rider that is not Satisfied makes
\* the rider Cancelled, gives the monitor the one notification (rider,
\* cancel, the rider's id, the rider's origin) at t, calls cancel_ride for
\* the rider, returns no event and leaves every driver as it was.
C23_CancelEffects ==
    [][(/\ Running
        /\ Head(events).type = "Cancellation"
        /\ riders[Head(events).rider].status # SATISFIED) =>
        LET e == Head(events)
            r == e.rider
        IN  /\ riders' = [riders EXCEPT ![r].status = CANCELLED]
            /\ log' = Append(log, Notify(e.timestamp, RIDER, CANCEL, r,
                                         riders[r].origin))
            /\ last'.cancel_ride = r
            /\ \A i \in DOMAIN waiting' : waiting'[i] # r
            /\ last'.produced = <<>>
            /\ events' = Tail(events)
            /\ drivers' = drivers]_vars

\* A rider cancelled while the driver matched with it was on the way.
C23_Witness ==
    /\ last.event.type = "Cancellation"
    /\ riders[last.event.rider].status = CANCELLED
    /\ last.cancel_ride = last.event.rider
    /\ \E i \in DOMAIN events :
           /\ events[i].type = "Pickup"
           /\ events[i].rider = last.event.rider
           /\ ~drivers[events[i].driver].is_idle

(***************************************************************************)
(* driver.py called on its own: get_travel_time, start_drive and           *)
(* start_ride of a driver of any speed up to MaxTravelSpeed, anywhere on   *)
(* the grid.                                                               *)
(***************************************************************************)
MaxTravelSpeed == 4

TravelInit ==
    \E location, destination \in GridLocs, speed \in 1..MaxTravelSpeed :
        Standalone([kind |-> "travel", driver |-> Driver(location, speed),
                    destination |-> destination])

\* What a call leaves: the value returned and the driver after it.
Travelled(op, time, drv) ==
    Returned([op |-> op, time |-> time, driver |-> drv])

TravelTimeCall ==
    /\ output = NoCall
    /\ Return(Travelled("get_travel_time",
                        get_travel_time(input.driver, input.destination),
                        input.driver))

StartDriveCall ==
    /\ output = NoCall
    /\ LET drv == start_drive(input.driver, input.destination)
       IN  Return(Travelled("start_drive",
                            get_travel_time(drv, input.destination), drv))

StartRideCall ==
    /\ output = NoCall
    /\ LET rider == Rider(Location(0, 0), input.destination, 1)
           drv == start_ride(input.driver, rider)
       IN  Return(Travelled("start_ride",
                            get_travel_time(drv, rider.destination), drv))

TravelNext ==
    \/ TravelTimeCall
    \/ StartDriveCall
    \/ StartRideCall

TravelSpec == TravelInit /\ [][TravelNext]_vars

\* C24: get_travel_time returns the distance over the speed rounded to the
\* nearest integer: a number t >= 0 with 2 * |t * speed - distance| <= speed,
\* the distance being the Manhattan distance from where the driver is to the
\* destination; start_drive and start_ride return the same number, measured
\* from where the driver is when called.
C24_TravelTime ==
    output.kind = "returned" =>
        LET t == output.value.time
            speed == input.driver.speed
            distance == Gap(input.driver.location.row, input.destination.row)
                        + Gap(input.driver.location.column,
                              input.destination.column)
        IN  /\ t \in Nat
            /\ 2 * Gap(t * speed, distance) <= speed
            /\ t = get_travel_time(input.driver, input.destination)
            /\ output.value.driver.location = input.driver.location
            /\ output.value.op # "get_travel_time" =>
                   output.value.driver.destination = input.destination

\* start_ride has returned a time the speed does not divide the distance by:
\* the quotient was rounded up.
C24_Witness ==
    /\ output.kind = "returned"
    /\ output.value.op = "start_ride"
    /\ output.value.time * input.driver.speed
           > manhattan_distance(input.driver.location, input.destination)
    /\ output.value.time > 1

\* C25: every Pickup and every Dropoff is applied while its driver is busy
\* with a destination, the rider's origin at a Pickup and the rider's
\* destination at a Dropoff: this holds of every such event from the moment
\* it is pending, so end_drive never finds the destination missing.
C25_EndDrivePrecondition ==
    \A i \in DOMAIN events :
        events[i].type \in {"Pickup", "Dropoff"} =>
            LET drv == drivers[events[i].driver]
                rider == riders[events[i].rider]
            IN  /\ ~drv.is_idle
                /\ drv.destination # NoLoc
                /\ drv.destination = IF events[i].type = "Pickup"
                                     THEN rider.origin
                                     ELSE rider.destination

\* A Dropoff is the next event to apply, its driver on the way from the
\* rider's origin to another place, the rider's destination.
C25_Witness ==
    /\ ~aborted
    /\ events # <<>>
    /\ Head(events).type = "Dropoff"
    /\ last.event.type = "Pickup"
    /\ drivers[Head(events).driver].location = riders[Head(events).rider].origin
    /\ drivers[Head(events).driver].destination
           = riders[Head(events).rider].destination
    /\ riders[Head(events).rider].origin # riders[Head(events).rider].destination

\* The pending Pickup and Dropoff events that name a driver.
PendingTrips(d) ==
    {i \in DOMAIN events :
        events[i].type \in {"Pickup", "Dropoff"} /\ events[i].driver = d}

\* The pending Pickup events that name a rider.
PendingPickups(r) ==
    {i \in DOMAIN events : events[i].type = "Pickup" /\ events[i].rider = r}

\* C26: between two event applications a driver is busy exactly when one
\* Pickup or Dropoff naming it is pending, and never more than one is; no
\* rider is named by two pending Pickups; so with the queue empty every
\* driver is idle.
C26_BusyIffPendingTrip ==
    /\ \A d \in DOMAIN drivers :
           /\ Cardinality(PendingTrips(d)) <= 1
           /\ ~drivers[d].is_idle <=> Cardinality(PendingTrips(d)) = 1
    /\ \A r \in DOMAIN riders : Cardinality(PendingPickups(r)) <= 1
    /\ events = <<>> => \A d \in DOMAIN drivers : drivers[d].is_idle

\* One driver is on a ride, its Dropoff pending, while another is idle with
\* nothing pending but its request.
C26_Witness ==
    \E d, o \in DOMAIN drivers :
        /\ ~drivers[d].is_idle
        /\ \E i \in PendingTrips(d) : events[i].type = "Dropoff"
        /\ drivers[o].is_idle
        /\ PendingTrips(o) = {}

AllRiders == {"R1", "R2"}

\* The rider's status is final: Satisfied or Cancelled, not Waiting or unset.
Final(r) ==
    /\ riders[r].status \in {SATISFIED, CANCELLED}
    /\ riders[r].status \notin {WAITING, UNSET}

\* C27: every rider whose RiderRequest has been applied reaches a final
\* status: it is eventually Satisfied or Cancelled, and when the loop has
\* halted on an empty queue every such rider is.
C27_RidersEndFinal ==
    /\ [](events = <<>> =>
            \A r \in DOMAIN riders : RequestApplied(r) => Final(r))
    /\ \A r \in AllRiders :
           (r \in DOMAIN riders /\ RequestApplied(r))
               ~> (r \in DOMAIN riders /\ events = <<>> /\ Final(r))

\* The loop has halted on an empty queue after two requests: one rider was
\* never picked up and gave up, the other was driven to its destination.
C27_Witness ==
    /\ events = <<>>
    /\ \A r \in AllRiders : r \in DOMAIN riders /\ RequestApplied(r)
    /\ \E r \in AllRiders :
           /\ riders[r].status = CANCELLED
           /\ \A i \in DOMAIN log : log[i].id = r => log[i].action # PICKUP
    /\ \E r \in AllRiders :
           /\ riders[r].status = SATISFIED
           /\ \E i \in DOMAIN log : log[i].id = r /\ log[i].action = DROPOFF

\* The actions of the monitor's notifications about a rider, in order.
RiderActions(r) ==
    LET about == SelectSeq(log, LAMBDA n : n.category = RIDER /\ n.id = r)
    IN  [i \in DOMAIN about |-> about[i].action]

IsPrefix(s, t) == Len(s) <= Len(t) /\ \A i \in DOMAIN s : s[i] = t[i]

\* C28: the notifications about a rider are, in order, a prefix of request,
\* pickup, dropoff or of request, cancel: no rider has a cancel and a
\* pickup, none is picked up or dropped off twice, and a dropoff comes after
\* a pickup.
C28_RiderNotifications ==
    \A r \in DOMAIN riders :
        \/ IsPrefix(RiderActions(r), <<REQUEST, PICKUP, DROPOFF>>)
        \/ IsPrefix(RiderActions(r), <<REQUEST, CANCEL>>)

\* One rider has gone through request, pickup and dropoff, another through
\* request and cancel.
C28_Witness ==
    \E r, o \in DOMAIN riders :
        /\ RiderActions(r) = <<REQUEST, PICKUP, DROPOFF>>
        /\ RiderActions(o) = <<REQUEST, CANCEL>>

\* C29: the timestamps of the monitor's notifications never decrease along
\* the log.
C29_LogTimestampsOrdered ==
    \A i, j \in DOMAIN log : i < j => log[i].timestamp <= log[j].timestamp

\* The log holds notifications of one instant and of a later one, the last
\* of them a dropoff.
C29_Witness ==
    /\ Len(log) > 3
    /\ log[1].timestamp = log[2].timestamp
    /\ log[2].timestamp < log[Len(log)].timestamp
    /\ log[Len(log)].action = DROPOFF

\* The pending events of a type that name a rider.
PendingOf(q, type, r) ==
    {i \in DOMAIN q : q[i].type = type /\ q[i].rider = r}

\* C30: a Pickup and a Cancellation of one rider with the same timestamp.
\* When both come from the RiderRequest (the travel time equals the
\* patience) the Pickup is queued before the Cancellation; applied while the
\* Cancellation is pending it leaves the rider Satisfied, and the
\* Cancellation then changes no rider.  When the Pickup comes from a later
\* DriverRequest the pending Cancellation stays before it; applied while the
\* Pickup is pending it leaves the rider Cancelled, and the Pickup then
\* leaves it Cancelled.
C30_TieBreak ==
    [][Running =>
        LET e == Head(events)
            made == last'.produced
        IN  /\ (/\ e.type = "RiderRequest"
                /\ Len(made) = 2
                /\ made[1].timestamp = made[2].timestamp)
               => /\ made[1].type = "Pickup"
                  /\ made[2].type = "Cancellation"
                  /\ Before(events', made[1], made[2])
            /\ (e.type = "DriverRequest" /\ Len(made) = 1)
               => \A i \in PendingOf(events, "Cancellation", made[1].rider) :
                      events[i].timestamp = made[1].timestamp
                          => Before(events', events[i], made[1])
            /\ (/\ e.type = "Pickup"
                /\ \E i \in PendingOf(events, "Cancellation", e.rider) :
                       events[i].timestamp = e.timestamp)
               => riders'[e.rider].status = SATISFIED
            /\ (e.type = "Cancellation" /\ riders[e.rider].status = SATISFIED)
               => riders' = riders
            /\ (/\ e.type = "Cancellation"
                /\ \E i \in PendingOf(events, "Pickup", e.rider) :
                       events[i].timestamp = e.timestamp)
               => riders'[e.rider].status = CANCELLED
            /\ (e.type = "Pickup" /\ riders[e.rider].status = CANCELLED)
               => riders' = riders]_vars

\* The time of the first notification of an action about a rider.
NotifiedAt(r, action) ==
    LET about == SelectSeq(log, LAMBDA n : n.category = RIDER /\ n.id = r
                                           /\ n.action = action)
    IN  IF about = <<>> THEN -1 ELSE about[1].timestamp

\* Both ties have happened: a rider was picked up at the very time its
\* patience ran out, and the Pickup just applied found its rider cancelled
\* at that same time.
C30_Witness ==
    /\ last.event.type = "Pickup"
    /\ riders[last.event.rider].status = CANCELLED
    /\ NotifiedAt(last.event.rider, CANCEL) = last.event.timestamp
    /\ \E r \in DOMAIN riders :
           /\ riders[r].status = SATISFIED
           /\ riders[r].patience > 0
           /\ NotifiedAt(r, PICKUP)
                  = NotifiedAt(r, REQUEST) + riders[r].patience

\* The grid of the puzzle extended, as it reads after the call.
PegMarkerAfter ==
    IF output.kind = "returned" THEN output.value.marker
    ELSE output.error.marker

\* C31: GridPegSolitairePuzzle.extensions leaves the puzzle it is called on
\* as it was: after the call, whether it returned or raised, every cell of
\* the puzzle's grid is what it was before, and no returned puzzle reads as
\* the same grid as another (each is its own jump away from the original).
C31_ExtensionsKeepPuzzle ==
    output.kind # "none" =>
        /\ PegMarkerAfter = input
        /\ output.kind = "returned" =>
               \A j, k \in DOMAIN output.value.extensions :
                   j # k => output.value.extensions[j]
                                # output.value.extensions[k]

====
